---- MODULE Spec2Model ----
(***************************************************************************)
(* Model of the ticket scoring and ranking core of fscommander             *)
(* (src/releases/fscommander.py): SCORING_MAP, calculate_sort_key,         *)
(* sort_tickets, make_status_priority_readable, the display functions and  *)
(* main with its fetch phase (make_api_request, get_company_names, the     *)
(* get_*_tickets functions, read_json_file), applied to bounded ticket     *)
(* lists; and of the sort and status filter of                             *)
(* releases/fscommander-1.0.2.py and the sort of fscommander-1.0.3.py.     *)
(*                                                                         *)
(* Python values are tagged so that values of different Python types can   *)
(* be compared: I(n) is the int n, S(s) the str s, NONE is None.  A dict   *)
(* is a record whose DOMAIN is its set of keys, so an absent key is a      *)
(* field that is not in the DOMAIN.  A created_at string of the fixed      *)
(* format is the sequence of its digit characters; Python compares two     *)
(* strings lexicographically by code point.                                *)
(***************************************************************************)
EXTENDS Integers, Sequences, FiniteSets, TLC

VARIABLES
    tickets,    \* the list object handed to sort_tickets (sorted in place)
    given,      \* the list as it was when the latest call of sort_tickets began
    log,        \* the records written to the log so far
    log_level,  \* args.log_level: "WARNING" or "DEBUG"
    raised,     \* "none", or the exception that ended the run
    calls,      \* number of calls of sort_tickets made so far
    version,    \* the script that runs: "1.0.5" (releases/fscommander.py),
                \* "1.0.3" or "1.0.2"
    source,     \* main's variable tickets: "unbound", or what the ticket
                \* source yielded, "list" or "None"
    pc,         \* position of main: the step it is about to take
    sorted_tickets,     \* main's variable: "unbound", or the list object it names
    rendered,   \* what the display function printed: its format and rows
    scoring_map,        \* the dict object bound to the global SCORING_MAP
    interrupted,        \* the global flag set by signal_handler
    time_wait,          \* args.time_wait
    original_time_wait, \* the global original_time_wait
    relabels,   \* number of calls of make_status_priority_readable made so far
    args,       \* args.mode, args.get_tickets and args.file as parsed
    outcomes,   \* what the server did on each request of the latest
                \* top-level call of make_api_request, in order
    retries,    \* the retries parameter of the running make_api_request
    page        \* the page get_company_names is asking for

vars == <<tickets, given, log, log_level, raised, calls, version, source, pc,
          sorted_tickets, rendered, scoring_map, interrupted, time_wait,
          original_time_wait, relabels, args, outcomes, retries, page>>

\* the variables of the fetch phase of main
fetch_vars == <<args, outcomes, retries, page>>

\* the variables of the process-wide state outside the ticket pipeline
globals == <<scoring_map, interrupted, time_wait, original_time_wait>>

\* ---------------------------------------------------------------- bounds
MaxTickets == 3
MaxCalls == 2

\* ---------------------------------------------------------- Python values
I(n) == <<"int", n>>
S(s) == <<"str", s>>
NONE == <<"None">>

\* dict.get(key, default)
DictGet(d, k, dflt) == IF k \in DOMAIN d THEN d[k] ELSE dflt

\* str < str : lexicographic comparison, character by character
RECURSIVE StrLess(_, _)
StrLess(a, b) ==
    IF b = <<>> THEN FALSE
    ELSE IF a = <<>> THEN TRUE
    ELSE IF Head(a) # Head(b) THEN Head(a) < Head(b)
    ELSE StrLess(Tail(a), Tail(b))

\* variant: the sort compares the scores only (key=lambda x: x['sort_key'][0])
KeyLessScoreOnly(k1, k2) == k1[1] < k2[1]

\* the characters of a string in reverse order
Reversed(a) == [i \in 1..Len(a) |-> a[Len(a) + 1 - i]]

\* variant: created_at is written with its least significant field first (as
\* in a day-first date) and compared as a string
KeyLessLeastSignificantFirst(k1, k2) ==
    \/ k1[1] < k2[1]
    \/ k1[1] = k2[1] /\ StrLess(Reversed(k1[2]), Reversed(k2[2]))

\* tuple < tuple for the sort keys (-score, created_at)
KeyLess(k1, k2) ==
    \/ k1[1] < k2[1]
    \/ k1[1] = k2[1] /\ StrLess(k1[2], k2[2])

\* ------------------------------------------------------------ SCORING_MAP
IP == S("Incident or Problem")
SR == S("Service request")
PROD == S("Production")
LAB == S("Lab")
ESC == S("escalated")

\* the 76 rows of the dict display, lines 269-344
ScoringRows ==
    ( <<S("A"), I(4), PROD, IP>> :> 76 @@ <<S("A"), I(4), LAB, IP>> :> 75
   @@ <<S("B"), I(4), PROD, IP>> :> 74 @@ <<S("B"), I(4), LAB, IP>> :> 73
   @@ <<S("C"), I(4), PROD, IP>> :> 72 @@ <<S("C"), I(4), LAB, IP>> :> 71
   @@ <<S("D"), I(4), PROD, IP>> :> 70 @@ <<S("D"), I(4), LAB, IP>> :> 69
   @@ <<S("E"), I(4), PROD, IP>> :> 68 @@ <<S("E"), I(4), LAB, IP>> :> 67
   @@ <<S("A"), ESC, PROD>> :> 66      @@ <<S("A"), ESC, LAB>> :> 65
   @@ <<S("B"), ESC, PROD>> :> 64      @@ <<S("B"), ESC, LAB>> :> 63
   @@ <<S("C"), ESC, PROD>> :> 62      @@ <<S("C"), ESC, LAB>> :> 61
   @@ <<S("A"), I(3), PROD, IP>> :> 60 @@ <<S("A"), I(3), LAB, IP>> :> 59
   @@ <<S("B"), I(3), PROD, IP>> :> 58 @@ <<S("B"), I(3), LAB, IP>> :> 57
   @@ <<S("C"), I(3), PROD, IP>> :> 56 @@ <<S("C"), I(3), LAB, IP>> :> 55
   @@ <<S("A"), I(3), PROD, SR>> :> 54 @@ <<S("A"), I(3), LAB, SR>> :> 53
   @@ <<S("B"), I(3), PROD, SR>> :> 52 @@ <<S("B"), I(3), LAB, SR>> :> 51
   @@ <<S("C"), I(3), PROD, SR>> :> 50 @@ <<S("C"), I(3), LAB, SR>> :> 49
   @@ <<S("D"), I(3), PROD, IP>> :> 48 @@ <<S("D"), I(3), LAB, IP>> :> 47
   @@ <<S("E"), I(3), PROD, IP>> :> 46 @@ <<S("E"), I(3), LAB, IP>> :> 45
   @@ <<S("A"), I(2), PROD, IP>> :> 44 @@ <<S("A"), I(2), LAB, IP>> :> 43
   @@ <<S("B"), I(2), PROD, IP>> :> 42 @@ <<S("B"), I(2), LAB, IP>> :> 41
   @@ <<S("D"), ESC, PROD>> :> 40      @@ <<S("D"), ESC, LAB>> :> 39
   @@ <<S("C"), I(2), PROD, IP>> :> 38 @@ <<S("C"), I(2), LAB, IP>> :> 37
   @@ <<S("A"), I(2), PROD, SR>> :> 36 @@ <<S("A"), I(2), LAB, SR>> :> 35
   @@ <<S("B"), I(2), PROD, SR>> :> 34 @@ <<S("B"), I(2), LAB, SR>> :> 33
   @@ <<S("C"), I(2), PROD, SR>> :> 32 @@ <<S("C"), I(2), LAB, SR>> :> 31
   @@ <<S("E"), ESC, PROD>> :> 30      @@ <<S("E"), ESC, LAB>> :> 29
   @@ <<S("D"), I(2), PROD, IP>> :> 28 @@ <<S("D"), I(2), LAB, IP>> :> 27
   @@ <<S("D"), I(2), PROD, SR>> :> 26 @@ <<S("D"), I(2), LAB, SR>> :> 25
   @@ <<S("E"), I(2), PROD, IP>> :> 24 @@ <<S("E"), I(2), LAB, IP>> :> 23
   @@ <<S("E"), I(2), PROD, SR>> :> 22 @@ <<S("E"), I(2), LAB, SR>> :> 21
   @@ <<S("A"), I(1), PROD, IP>> :> 20 @@ <<S("A"), I(1), LAB, IP>> :> 19
   @@ <<S("B"), I(1), PROD, IP>> :> 18 @@ <<S("B"), I(1), LAB, IP>> :> 17
   @@ <<S("C"), I(1), PROD, IP>> :> 16 @@ <<S("C"), I(1), LAB, IP>> :> 15
   @@ <<S("A"), I(1), PROD, SR>> :> 14 @@ <<S("A"), I(1), LAB, SR>> :> 13
   @@ <<S("B"), I(1), PROD, SR>> :> 12 @@ <<S("B"), I(1), LAB, SR>> :> 11
   @@ <<S("C"), I(1), PROD, SR>> :> 10 @@ <<S("C"), I(1), LAB, SR>> :> 9
   @@ <<S("D"), I(1), PROD, IP>> :> 8  @@ <<S("D"), I(1), LAB, IP>> :> 7
   @@ <<S("D"), I(1), PROD, SR>> :> 6  @@ <<S("D"), I(1), LAB, SR>> :> 5
   @@ <<S("E"), I(1), PROD, IP>> :> 4  @@ <<S("E"), I(1), LAB, IP>> :> 3
   @@ <<S("E"), I(1), PROD, SR>> :> 2  @@ <<S("E"), I(1), LAB, SR>> :> 1 )

\* variant: the last row of the table is lost
ScoringMapWithoutLastRow ==
    [k \in DOMAIN ScoringRows \ {<<S("E"), I(1), LAB, SR>>} |-> ScoringRows[k]]

\* variant: the table without the rows of escalated tier E tickets
ScoringMapWithoutTierEEscalated ==
    [k \in DOMAIN ScoringRows \ {<<S("E"), ESC, PROD>>, <<S("E"), ESC, LAB>>}
        |-> ScoringRows[k]]

\* variant: a table that also ranks the tier A Service requests of priority 4,
\* above every other row
ScoringMapWithUrgentServiceRequests ==
    (<<S("A"), I(4), PROD, SR>> :> 78 @@ <<S("A"), I(4), LAB, SR>> :> 77)
        @@ ScoringRows

\* variant: two keys share the top value
ScoringMapWithRepeatedValue ==
    (<<S("A"), I(4), LAB, IP>> :> 76) @@ ScoringRows

\* variant: for escalated tier C tickets Lab stands above Production
ScoringMapLabAboveProduction ==
    (<<S("C"), ESC, PROD>> :> 61 @@ <<S("C"), ESC, LAB>> :> 62) @@ ScoringRows

\* variant: escalated tier A Production tickets stand above the whole table
ScoringMapEscalationOnTop ==
    (<<S("A"), ESC, PROD>> :> 77) @@ ScoringRows

\* the module-level name the dict is bound to
SCORING_MAP == ScoringRows

\* ----------------------------------------------------- calculate_sort_key
\* variant: a missing account_tier is replaced by 'D'
TierUsedDefaultD(ticket) ==
    LET account_tier == DictGet(ticket.custom_fields, "account_tier", NONE)
    IN  IF account_tier = NONE THEN S("D") ELSE account_tier

\* account_tier after the default has been applied (lines 349, 356-358)
TierUsed(ticket) ==
    LET account_tier == DictGet(ticket.custom_fields, "account_tier", NONE)
    IN  IF account_tier = NONE THEN S("C") ELSE account_tier

\* environment after the default has been applied (lines 350, 359-361)
EnvUsed(ticket) ==
    LET environment == DictGet(ticket.custom_fields, "environment", NONE)
    IN  IF environment = NONE THEN PROD ELSE environment

\* variant: the escalation flag is not looked at
ScoreKeyIgnoringEscalation(ticket) ==
    <<TierUsed(ticket), ticket.priority, EnvUsed(ticket),
      ticket.custom_fields.ticket_type>>

\* the lookup key (lines 363-367)
ScoreKey(ticket) ==
    IF ticket.is_escalated
    THEN <<TierUsed(ticket), ESC, EnvUsed(ticket)>>
    ELSE <<TierUsed(ticket), ticket.priority, EnvUsed(ticket),
           ticket.custom_fields.ticket_type>>

\* variant: the score is returned without the minus sign
SortKeyNotNegated(ticket) ==
    LET score == DictGet(scoring_map, ScoreKey(ticket), 0)
    IN  <<score, ticket.created_at>>

\* variant: a key that is not in the table gets a score above the table
SortKeyUnknownOnTop(ticket) ==
    LET score == DictGet(scoring_map, ScoreKey(ticket), 100)
    IN  <<-score, ticket.created_at>>

\* variant: an interrupted run stops scoring
SortKeyZeroOnceInterrupted(ticket) ==
    LET score == IF interrupted THEN 0
                 ELSE DictGet(scoring_map, ScoreKey(ticket), 0)
    IN  <<-score, ticket.created_at>>

\* the value returned: (-score, created_at); SCORING_MAP is read through the
\* global name at the time of the call
calculate_sort_key(ticket) ==
    LET score == DictGet(scoring_map, ScoreKey(ticket), 0)
    IN  <<-score, ticket.created_at>>

\* the warnings calculate_sort_key writes for one ticket, in order
MissingFieldWarnings(ticket) ==
    (IF DictGet(ticket.custom_fields, "account_tier", NONE) = NONE
     THEN <<[level |-> "WARNING", id |-> ticket.id, field |-> "account_tier"]>>
     ELSE <<>>)
    \o
    (IF DictGet(ticket.custom_fields, "environment", NONE) = NONE
     THEN <<[level |-> "WARNING", id |-> ticket.id, field |-> "environment"]>>
     ELSE <<>>)

\* ----------------------------------------------------------- sort_tickets
\* variant: the defaults used for the score are also written into the
\* ticket's custom_fields
DecorateWritingDefaults(ticket) ==
    LET sort_key == calculate_sort_key(ticket)
    IN  [score |-> -sort_key[1], sort_key |-> sort_key,
         custom_fields |-> [account_tier |-> TierUsed(ticket),
                            environment |-> EnvUsed(ticket)]
                           @@ ticket.custom_fields]
        @@ ticket

\* lines 379-381: ticket['score'] and ticket['sort_key'] are (over)written
Decorate(ticket) ==
    LET sort_key == calculate_sort_key(ticket)
    IN  [score |-> -sort_key[1], sort_key |-> sort_key] @@ ticket

\* variant: tickets are collected per sort key, a ticket whose key is already
\* taken is lost
RECURSIVE InsertDroppingEqual(_, _)
InsertDroppingEqual(sorted, x) ==
    IF sorted = <<>> THEN <<x>>
    ELSE IF x.sort_key = Head(sorted).sort_key THEN sorted
    ELSE IF KeyLess(x.sort_key, Head(sorted).sort_key) THEN <<x>> \o sorted
    ELSE <<Head(sorted)>> \o InsertDroppingEqual(Tail(sorted), x)

\* variant: an unstable sort, an element goes before the elements with an
\* equal key
RECURSIVE InsertBeforeEqual(_, _)
InsertBeforeEqual(sorted, x) ==
    IF sorted = <<>> THEN <<x>>
    ELSE IF ~KeyLess(Head(sorted).sort_key, x.sort_key) THEN <<x>> \o sorted
    ELSE <<Head(sorted)>> \o InsertBeforeEqual(Tail(sorted), x)

\* list.sort(key=...) on a short list is a binary insertion sort that uses
\* only "<" on the keys: an element goes before the first element whose key
\* is greater than its own, so equal keys keep their order.
RECURSIVE InsertByKey(_, _)
InsertByKey(sorted, x) ==
    IF sorted = <<>> THEN <<x>>
    ELSE IF KeyLess(x.sort_key, Head(sorted).sort_key) THEN <<x>> \o sorted
    ELSE <<Head(sorted)>> \o InsertByKey(Tail(sorted), x)

\* variant: the list is consumed from its end
RECURSIVE ListSortFromBack(_, _)
ListSortFromBack(sorted, rest) ==
    IF rest = <<>> THEN sorted
    ELSE ListSortFromBack(InsertByKey(sorted, rest[Len(rest)]),
                          SubSeq(rest, 1, Len(rest) - 1))

RECURSIVE ListSort(_, _)
ListSort(sorted, rest) ==
    IF rest = <<>> THEN sorted
    ELSE ListSort(InsertByKey(sorted, Head(rest)), Tail(rest))

\* the list after the scoring loop and tickets.sort
SortedTickets(ts) ==
    ListSort(<<>>, [i \in 1..Len(ts) |-> Decorate(ts[i])])

\* the warnings of the scoring loop, ticket by ticket in list order
RECURSIVE ScoringLog(_)
ScoringLog(ts) ==
    IF ts = <<>> THEN <<>>
    ELSE MissingFieldWarnings(Head(ts)) \o ScoringLog(Tail(ts))

\* line 389 subscripts custom_fields with both keys: KeyError when one is absent
DebugLineRaises(ticket) ==
    \/ "account_tier" \notin DOMAIN ticket.custom_fields
    \/ "environment" \notin DOMAIN ticket.custom_fields

\* the debug loop (lines 387-389) over the sorted list: the records written
\* and whether it ended in a KeyError
RECURSIVE DebugLog(_)
DebugLog(ts) ==
    IF ts = <<>> \/ DebugLineRaises(Head(ts)) THEN <<>>
    ELSE <<[level |-> "DEBUG", id |-> Head(ts).id, field |-> "ticket"]>>
         \o DebugLog(Tail(ts))

DebugRaises(ts) == \E i \in 1..Len(ts) : DebugLineRaises(ts[i])

\* variant: the table is read with setdefault, which stores the default
\* under a key that was not in the dict
RECURSIVE MapAfterSetDefault(_, _)
MapAfterSetDefault(ts, map) ==
    IF ts = <<>> THEN map
    ELSE MapAfterSetDefault(Tail(ts),
             IF ScoreKey(Head(ts)) \in DOMAIN map THEN map
             ELSE (ScoreKey(Head(ts)) :> 0) @@ map)

\* the dict bound to SCORING_MAP after the scoring loop: .get (line 370)
\* stores nothing
MapAfterScoring(ts, map) == map

\* one call sort_tickets(tickets); a None argument fails in the first for loop
SortTickets ==
    /\ version = "1.0.5"
    /\ pc = "rank"
    /\ raised = "none"
    /\ calls < MaxCalls
    /\ calls' = calls + 1
    /\ IF source = "None"
       THEN /\ raised' = "TypeError"
            /\ UNCHANGED <<tickets, given, log, sorted_tickets, scoring_map>>
       ELSE /\ given' = tickets
            /\ tickets' = SortedTickets(tickets)
            /\ scoring_map' = MapAfterScoring(tickets, scoring_map)
            /\ IF log_level = "DEBUG"
               THEN /\ log' = log \o ScoringLog(tickets) \o DebugLog(tickets')
                    /\ raised' = IF DebugRaises(tickets') THEN "KeyError" ELSE "none"
               ELSE /\ log' = log \o ScoringLog(tickets)
                    /\ raised' = "none"
            /\ sorted_tickets' = IF raised' = "none" THEN "tickets" ELSE sorted_tickets
    /\ UNCHANGED <<log_level, version, source, pc, rendered, interrupted,
                   time_wait, original_time_wait>>
    /\ UNCHANGED <<relabels, args, outcomes, retries, page>>

\* ------------------------------------------ make_status_priority_readable
status_mapping ==
    ( I(2) :> S("Open") @@ I(3) :> S("Pending") @@ I(4) :> S("Resolved")
   @@ I(5) :> S("Closed") @@ I(6) :> S("New") @@ I(7) :> S("Pending access")
   @@ I(8) :> S("Waiting for RnD") @@ I(9) :> S("Pending other ticket")
   @@ I(10) :> S("Waiting for maintenance") @@ I(11) :> S("Waiting for bugfix")
   @@ I(12) :> S("Service request triage") @@ I(13) :> S("Rejected")
   @@ I(14) :> S("Duplicate") )

priority_mapping ==
    ( I(1) :> S("Low") @@ I(2) :> S("Medium") @@ I(3) :> S("High")
   @@ I(4) :> S("Urgent") )

\* variant: a status that is not in the mapping is left as it is
ReadableStatusKeepingUnmapped(status) == DictGet(status_mapping, status, status)

\* line 262
ReadableStatus(status) == DictGet(status_mapping, status, S("Unknown Status"))

\* variant: a priority that is not in the mapping is left as it is
ReadablePriorityKeepingUnmapped(priority) ==
    DictGet(priority_mapping, priority, priority)

\* line 263
ReadablePriority(priority) == DictGet(priority_mapping, priority, S("Unknown Priority"))

\* the loop body, lines 261-263: both fields are overwritten in the ticket
Relabel(ticket) ==
    [ticket EXCEPT !.status = ReadableStatus(ticket.status),
                   !.priority = ReadablePriority(ticket.priority)]

\* variant: main relabels the list it fetched and ranks it afterwards
MakeReadableBeforeRanking ==
    /\ raised = "none"
    /\ \/ /\ version = "1.0.5" /\ pc = "rank" /\ calls = 0 /\ relabels = 0
          /\ tickets' = [i \in 1..Len(tickets) |-> Relabel(tickets[i])]
          /\ relabels' = relabels + 1
          /\ UNCHANGED pc
       \/ /\ version = "1.0.5" /\ pc = "rank" /\ calls >= 1
          /\ pc' = "display"
          /\ UNCHANGED <<tickets, relabels>>
       \/ /\ version \in {"1.0.2", "1.0.3"} /\ pc = "relabel"
          /\ tickets' = [i \in 1..Len(tickets) |-> Relabel(tickets[i])]
          /\ relabels' = relabels + 1
          /\ pc' = "display"
    /\ UNCHANGED <<given, log, log_level, raised, calls, version, source,
                   sorted_tickets, rendered, scoring_map, interrupted,
                   time_wait, original_time_wait>>
    /\ UNCHANGED fetch_vars

\* main line 586 (1.0.2: line 317, 1.0.3: line 401):
\* make_status_priority_readable on the list main holds
MakeReadable ==
    /\ raised = "none"
    /\ \/ version = "1.0.5" /\ pc = "rank" /\ calls >= 1
       \/ version \in {"1.0.2", "1.0.3"} /\ pc = "relabel"
    /\ tickets' = [i \in 1..Len(tickets) |-> Relabel(tickets[i])]
    /\ pc' = "display"
    /\ UNCHANGED <<given, log, log_level, raised, calls, version, source,
                   sorted_tickets, rendered, scoring_map, interrupted,
                   time_wait, original_time_wait>>
    /\ relabels' = relabels + 1
    /\ UNCHANGED fetch_vars

\* the most calls of make_status_priority_readable on one list
MaxRelabels == 2

\* one call make_status_priority_readable(tickets) by a caller that keeps the
\* list for further calls (lines 235-265)
CallMakeReadable ==
    /\ version = "1.0.5"
    /\ pc = "rank"
    /\ raised = "none"
    /\ source = "list"
    /\ relabels < MaxRelabels
    /\ tickets' = [i \in 1..Len(tickets) |-> Relabel(tickets[i])]
    /\ relabels' = relabels + 1
    /\ UNCHANGED <<given, log, log_level, raised, calls, version, source, pc,
                   sorted_tickets, rendered, scoring_map, interrupted,
                   time_wait, original_time_wait>>
    /\ UNCHANGED fetch_vars

\* --------------------------------------------------------------- display
\* marks a key that the printed ticket does not have
ABSENT == <<"absent">>

\* display_as_json prints the ticket dicts as they are
JsonRow(ticket) ==
    [id |-> ticket.id, priority |-> ticket.priority, status |-> ticket.status,
     environment |-> DictGet(ticket.custom_fields, "environment", ABSENT),
     account_tier |-> DictGet(ticket.custom_fields, "account_tier", ABSENT),
     score |-> ticket.score]

\* variant: the table shows the default for a null value too
TableRowHandlingNull(ticket, debug) ==
    LET row == [id |-> ticket.id, priority |-> ticket.priority,
                status |-> ticket.status,
                environment |-> EnvUsed(ticket),
                account_tier |-> TierUsed(ticket)]
    IN  IF debug THEN [score |-> ticket.score] @@ row ELSE row

\* display_as_table, lines 422-437: .get(key, default) for the two fields,
\* the Score column at log level DEBUG only
TableRow(ticket, debug) ==
    LET row == [id |-> ticket.id, priority |-> ticket.priority,
                status |-> ticket.status,
                environment |-> DictGet(ticket.custom_fields, "environment", PROD),
                account_tier |-> DictGet(ticket.custom_fields, "account_tier", S("C"))]
    IN  IF debug THEN [score |-> ticket.score] @@ row ELSE row

\* display_as_html, lines 479-507: None is replaced by the default
HtmlRow(ticket) ==
    LET environment == DictGet(ticket.custom_fields, "environment", NONE)
        account_tier == DictGet(ticket.custom_fields, "account_tier", NONE)
    IN  [id |-> ticket.id, priority |-> ticket.priority, status |-> ticket.status,
         environment |-> IF environment = NONE THEN PROD ELSE environment,
         account_tier |-> IF account_tier = NONE THEN S("C") ELSE account_tier,
         score |-> ticket.score]

Rows(format, ts, debug) ==
    [i \in 1..Len(ts) |->
        CASE format = "json" -> JsonRow(ts[i])
          [] format = "table" -> TableRow(ts[i], debug)
          [] format = "html" -> HtmlRow(ts[i])]

\* main lines 589-596: the display function args.output selects
Display ==
    /\ version = "1.0.5"
    /\ pc = "display"
    /\ raised = "none"
    /\ \E format \in {"json", "table", "html"} :
          rendered' = [format |-> format,
                       rows |-> Rows(format, tickets, log_level = "DEBUG")]
    /\ pc' = "done"
    /\ UNCHANGED <<tickets, given, log, log_level, raised, calls, version,
                   source, sorted_tickets, scoring_map, interrupted,
                   time_wait, original_time_wait>>
    /\ UNCHANGED <<relabels, args, outcomes, retries, page>>

\* ------------------------------------------------------------------ main
\* variant: the list is handed to sort_tickets without the None check
CheckTicketsSkipped ==
    /\ pc = "fetched"
    /\ pc' = "rank"
    /\ UNCHANGED <<tickets, given, log, log_level, raised, calls, version,
                   source, sorted_tickets, rendered, scoring_map, interrupted,
                   time_wait, original_time_wait>>
    /\ UNCHANGED <<relabels, args, outcomes, retries, page>>

\* lines 578-580: a None ticket list ends the run with sys.exit
CheckTickets ==
    /\ pc = "fetched"
    /\ IF source = "unbound"
       THEN /\ raised' = "UnboundLocalError"
            /\ pc' = "exit"
            /\ UNCHANGED log
       ELSE IF source = "None"
       THEN /\ log' = log \o <<[level |-> "ERROR",
                                message |-> "Failed to retrieve tickets"]>>
            /\ raised' = "SystemExit"
            /\ pc' = "exit"
       ELSE /\ pc' = "rank"
            /\ UNCHANGED <<log, raised>>
    /\ UNCHANGED <<tickets, given, log_level, calls, version, source,
                   sorted_tickets, rendered, scoring_map, interrupted,
                   time_wait, original_time_wait>>
    /\ UNCHANGED <<relabels, args, outcomes, retries, page>>

\* signal_handler (lines 64-67), run when SIGINT arrives
SignalHandler ==
    /\ pc \notin {"done", "exit"}
    /\ raised = "none"
    /\ interrupted' = TRUE
    /\ UNCHANGED <<tickets, given, log, log_level, raised, calls, version,
                   source, pc, sorted_tickets, rendered, scoring_map,
                   time_wait, original_time_wait>>
    /\ UNCHANGED <<relabels, args, outcomes, retries, page>>

\* ------------------------------------------- releases/fscommander-1.0.2.py
\* sorting_key, lines 183-204
SortingKey102(ticket) ==
    LET account_tier == ticket.custom_fields.account_tier
        tier_map == (S("A") :> 1 @@ S("B") :> 2 @@ S("C") :> 3 @@ S("D") :> 4
                     @@ S("E") :> 5)
    IN  << DictGet(tier_map, account_tier, 6),
           ticket.priority[2],
           IF ticket.is_escalated THEN -1 ELSE 0,
           IF ticket.custom_fields.ticket_type = IP THEN 1 ELSE 2,
           ticket.created_at >>

\* tuple < tuple for the keys of 1.0.2
Key102Less(k1, k2) ==
    \E n \in 1..5 :
        /\ \A m \in 1..(n - 1) : k1[m] = k2[m]
        /\ IF n = 5 THEN StrLess(k1[5], k2[5]) ELSE k1[n] < k2[n]

RECURSIVE Insert102(_, _)
Insert102(sorted, x) ==
    IF sorted = <<>> THEN <<x>>
    ELSE IF Key102Less(SortingKey102(x), SortingKey102(Head(sorted)))
         THEN <<x>> \o sorted
    ELSE <<Head(sorted)>> \o Insert102(Tail(sorted), x)

RECURSIVE ListSort102(_, _)
ListSort102(sorted, rest) ==
    IF rest = <<>> THEN sorted
    ELSE ListSort102(Insert102(sorted, Head(rest)), Tail(rest))

\* sort_tickets of 1.0.2 (lines 182-207, called at main line 311): the key
\* function subscripts custom_fields['account_tier']; when it raises the list
\* is left as it was
SortTickets102 ==
    /\ version = "1.0.2"
    /\ pc = "rank"
    /\ raised = "none"
    /\ given' = tickets
    /\ IF \E i \in 1..Len(tickets) : "account_tier" \notin DOMAIN tickets[i].custom_fields
       THEN /\ raised' = "KeyError"
            /\ UNCHANGED <<tickets, sorted_tickets, pc>>
       ELSE /\ tickets' = ListSort102(<<>>, tickets)
            /\ sorted_tickets' = "tickets"
            /\ pc' = "filter"
            /\ UNCHANGED raised
    /\ UNCHANGED <<log, log_level, calls, version, source, rendered,
                   scoring_map, interrupted, time_wait, original_time_wait>>
    /\ UNCHANGED <<relabels, args, outcomes, retries, page>>

\* variant: the list is passed on as it is
KeepAllStatuses(ts) == ts

\* main of 1.0.2, line 314
FilteredTickets(ts) ==
    SelectSeq(ts, LAMBDA ticket : ticket.status \notin {I(4), I(5), I(13), I(14)})

FilterTickets102 ==
    /\ version = "1.0.2"
    /\ pc = "filter"
    /\ tickets' = FilteredTickets(tickets)
    /\ pc' = "relabel"
    /\ UNCHANGED <<given, log, log_level, raised, calls, version, source,
                   sorted_tickets, rendered, scoring_map, interrupted,
                   time_wait, original_time_wait>>
    /\ UNCHANGED <<relabels, args, outcomes, retries, page>>

\* display_as_json / display_as_table of 1.0.2 (lines 210-231): the table
\* subscripts custom_fields['environment'] and ['account_tier']
Row102(format, ticket) ==
    [id |-> ticket.id, priority |-> ticket.priority, status |-> ticket.status,
     environment |-> DictGet(ticket.custom_fields, "environment", ABSENT),
     account_tier |-> ticket.custom_fields.account_tier]

Display102 ==
    /\ version \in {"1.0.2", "1.0.3"}
    /\ pc = "display"
    /\ raised = "none"
    /\ \E format \in {"json", "table"} :
          IF /\ format = "table"
             /\ \E i \in 1..Len(tickets) : "environment" \notin DOMAIN tickets[i].custom_fields
          THEN /\ raised' = "KeyError"
               /\ UNCHANGED <<rendered, pc>>
          ELSE /\ rendered' = [format |-> format,
                               rows |-> [i \in 1..Len(tickets) |-> Row102(format, tickets[i])]]
               /\ pc' = "done"
               /\ UNCHANGED raised
    /\ UNCHANGED <<tickets, given, log, log_level, calls, version, source,
                   sorted_tickets, scoring_map, interrupted, time_wait,
                   original_time_wait>>
    /\ UNCHANGED <<relabels, args, outcomes, retries, page>>

\* -------------------------------------------------- fscommander-1.0.3.py
\* the 76 rows of the dict display local to calculate_sort_key, lines 187-262
ScoringRows103 ==
    ( <<S("A"), I(4), PROD, IP>> :> 76
   @@ <<S("A"), I(4), LAB, IP>> :> 75
   @@ <<S("B"), I(4), PROD, IP>> :> 74
   @@ <<S("B"), I(4), LAB, IP>> :> 73
   @@ <<S("C"), I(4), PROD, IP>> :> 72
   @@ <<S("C"), I(4), LAB, IP>> :> 71
   @@ <<S("D"), I(4), PROD, IP>> :> 70
   @@ <<S("D"), I(4), LAB, IP>> :> 69
   @@ <<S("E"), I(4), PROD, IP>> :> 68
   @@ <<S("E"), I(4), LAB, IP>> :> 67
   @@ <<S("A"), ESC, PROD>> :> 66
   @@ <<S("A"), ESC, LAB>> :> 65
   @@ <<S("B"), ESC, PROD>> :> 64
   @@ <<S("B"), ESC, LAB>> :> 63
   @@ <<S("C"), ESC, PROD>> :> 62
   @@ <<S("C"), ESC, LAB>> :> 61
   @@ <<S("A"), I(3), PROD, IP>> :> 60
   @@ <<S("A"), I(3), LAB, IP>> :> 59
   @@ <<S("B"), I(3), PROD, IP>> :> 58
   @@ <<S("B"), I(3), LAB, IP>> :> 57
   @@ <<S("C"), I(3), PROD, IP>> :> 56
   @@ <<S("C"), I(3), LAB, IP>> :> 55
   @@ <<S("A"), I(3), PROD, SR>> :> 54
   @@ <<S("A"), I(3), LAB, SR>> :> 53
   @@ <<S("B"), I(3), PROD, SR>> :> 52
   @@ <<S("B"), I(3), LAB, SR>> :> 51
   @@ <<S("C"), I(3), PROD, SR>> :> 50
   @@ <<S("C"), I(3), LAB, SR>> :> 49
   @@ <<S("D"), I(3), PROD, IP>> :> 48
   @@ <<S("D"), I(3), LAB, IP>> :> 47
   @@ <<S("E"), I(3), PROD, IP>> :> 46
   @@ <<S("E"), I(3), LAB, IP>> :> 45
   @@ <<S("A"), I(2), PROD, IP>> :> 44
   @@ <<S("A"), I(2), LAB, IP>> :> 43
   @@ <<S("B"), I(2), PROD, IP>> :> 42
   @@ <<S("B"), I(2), LAB, IP>> :> 41
   @@ <<S("D"), ESC, PROD>> :> 40
   @@ <<S("D"), ESC, LAB>> :> 39
   @@ <<S("C"), I(2), PROD, IP>> :> 38
   @@ <<S("C"), I(2), LAB, IP>> :> 37
   @@ <<S("A"), I(2), PROD, SR>> :> 36
   @@ <<S("A"), I(2), LAB, SR>> :> 35
   @@ <<S("B"), I(2), PROD, SR>> :> 34
   @@ <<S("B"), I(2), LAB, SR>> :> 33
   @@ <<S("C"), I(2), PROD, SR>> :> 32
   @@ <<S("C"), I(2), LAB, SR>> :> 31
   @@ <<S("E"), ESC, PROD>> :> 30
   @@ <<S("E"), ESC, LAB>> :> 29
   @@ <<S("D"), I(2), PROD, IP>> :> 28
   @@ <<S("D"), I(2), LAB, IP>> :> 27
   @@ <<S("D"), I(2), PROD, SR>> :> 26
   @@ <<S("D"), I(2), LAB, SR>> :> 25
   @@ <<S("E"), I(2), PROD, IP>> :> 24
   @@ <<S("E"), I(2), LAB, IP>> :> 23
   @@ <<S("E"), I(2), PROD, SR>> :> 22
   @@ <<S("E"), I(2), LAB, SR>> :> 21
   @@ <<S("A"), I(1), PROD, IP>> :> 20
   @@ <<S("A"), I(1), LAB, IP>> :> 19
   @@ <<S("B"), I(1), PROD, IP>> :> 18
   @@ <<S("B"), I(1), LAB, IP>> :> 17
   @@ <<S("C"), I(1), PROD, IP>> :> 16
   @@ <<S("C"), I(1), LAB, IP>> :> 15
   @@ <<S("A"), I(1), PROD, SR>> :> 14
   @@ <<S("A"), I(1), LAB, SR>> :> 13
   @@ <<S("B"), I(1), PROD, SR>> :> 12
   @@ <<S("B"), I(1), LAB, SR>> :> 11
   @@ <<S("C"), I(1), PROD, SR>> :> 10
   @@ <<S("C"), I(1), LAB, SR>> :> 9
   @@ <<S("D"), I(1), PROD, IP>> :> 8
   @@ <<S("D"), I(1), LAB, IP>> :> 7
   @@ <<S("D"), I(1), PROD, SR>> :> 6
   @@ <<S("D"), I(1), LAB, SR>> :> 5
   @@ <<S("E"), I(1), PROD, IP>> :> 4
   @@ <<S("E"), I(1), LAB, IP>> :> 3
   @@ <<S("E"), I(1), PROD, SR>> :> 2
   @@ <<S("E"), I(1), LAB, SR>> :> 1 )

\* the local name the dict is bound to at each call (line 186)
scoring_map103 == ScoringRows103

\* lines 266-270 subscript custom_fields with the three keys: KeyError when
\* account_tier or environment is absent
Key103Raises(ticket) ==
    \/ "account_tier" \notin DOMAIN ticket.custom_fields
    \/ "environment" \notin DOMAIN ticket.custom_fields

\* the lookup key (lines 273-276): the fields as they are, no default
ScoreKey103(ticket) ==
    IF ticket.is_escalated
    THEN <<ticket.custom_fields.account_tier, ESC, ticket.custom_fields.environment>>
    ELSE <<ticket.custom_fields.account_tier, ticket.priority,
           ticket.custom_fields.environment, ticket.custom_fields.ticket_type>>

\* variant: the score is returned without the minus sign
SortKey103Ascending(ticket) ==
    LET score == DictGet(scoring_map103, ScoreKey103(ticket), 0)
    IN  <<score, ticket.created_at>>

\* the nested calculate_sort_key (lines 184-282)
calculate_sort_key103(ticket) ==
    LET score == DictGet(scoring_map103, ScoreKey103(ticket), 0)
    IN  <<-score, ticket.created_at>>

RECURSIVE Insert103(_, _)
Insert103(sorted, x) ==
    IF sorted = <<>> THEN <<x>>
    ELSE IF KeyLess(calculate_sort_key103(x), calculate_sort_key103(Head(sorted)))
         THEN <<x>> \o sorted
    ELSE <<Head(sorted)>> \o Insert103(Tail(sorted), x)

\* tickets.sort(key=calculate_sort_key), line 285
RECURSIVE ListSort103(_, _)
ListSort103(sorted, rest) ==
    IF rest = <<>> THEN sorted
    ELSE ListSort103(Insert103(sorted, Head(rest)), Tail(rest))

\* sort_tickets of 1.0.3 (lines 183-294, called at main line 398): the keys
\* are computed before the list is reordered, so a KeyError leaves the list
\* as it was; at log level DEBUG one record per ticket is written
SortTickets103 ==
    /\ version = "1.0.3"
    /\ pc = "rank"
    /\ raised = "none"
    /\ given' = tickets
    /\ IF \E i \in 1..Len(tickets) : Key103Raises(tickets[i])
       THEN /\ raised' = "KeyError"
            /\ UNCHANGED <<tickets, sorted_tickets, pc, log>>
       ELSE /\ tickets' = ListSort103(<<>>, tickets)
            /\ sorted_tickets' = "tickets"
            /\ pc' = "relabel"
            /\ log' = IF log_level = "DEBUG"
                      THEN log \o [i \in 1..Len(tickets) |->
                                     [level |-> "DEBUG", id |-> tickets'[i].id,
                                      field |-> "ticket"]]
                      ELSE log
            /\ UNCHANGED raised
    /\ UNCHANGED <<log_level, calls, version, source, rendered, scoring_map,
                   interrupted, time_wait, original_time_wait>>
    /\ UNCHANGED <<relabels, args, outcomes, retries, page>>

\* ------------------------------------------------------------------ inputs
TierValues == {S("A"), S("B"), S("C"), S("D"), S("E"), S("Z"), NONE}
EnvValues == {PROD, LAB, S("Other"), NONE}
PriorityValues == {I(1), I(2), I(3), I(4), I(5)}
TypeValues == {IP, SR, S("Other")}
CreatedAtValues == {<<0, 1>>, <<0, 2>>}
StatusValues == {I(n) : n \in 1..15}

\* custom_fields dicts: ticket_type always present, the other two keys
\* present (with a value or null) or absent
CustomFields(tiers, envs, types) ==
    UNION { { [ticket_type |-> ty],
              [ticket_type |-> ty, account_tier |-> tr],
              [ticket_type |-> ty, environment |-> en],
              [ticket_type |-> ty, account_tier |-> tr, environment |-> en] }
            : <<tr, en, ty>> \in tiers \X envs \X types }

\* every ticket of the modelled domain (without its id)
AnyTicket ==
    [ priority : PriorityValues, status : {I(2)}, is_escalated : BOOLEAN,
      custom_fields : CustomFields(TierValues, EnvValues, TypeValues),
      created_at : CreatedAtValues ]

\* the tickets the longer lists are built from
ListTicket ==
    [ priority : {I(4), I(5)}, status : {I(2)}, is_escalated : {FALSE},
      custom_fields : { [ticket_type |-> IP, account_tier |-> S("A"), environment |-> PROD],
                        [ticket_type |-> IP, account_tier |-> NONE] },
      created_at : CreatedAtValues ]

\* complete tickets of the documented domains, for lists of two; created_at
\* is the day of the month, "01", "02", "09" or "10"
PairTicket ==
    [ priority : {I(4)}, status : {I(2)}, is_escalated : BOOLEAN,
      custom_fields : [ticket_type : {IP, SR}, account_tier : {S("A"), S("C")},
                       environment : {PROD, LAB}],
      created_at : {<<0, 1>>, <<0, 2>>, <<0, 9>>, <<1, 0>>} ]

\* single tickets with every status and priority code
StatusTicket ==
    [ priority : PriorityValues, status : StatusValues, is_escalated : {FALSE},
      custom_fields : {[ticket_type |-> IP, account_tier |-> S("A"), environment |-> PROD]},
      created_at : {<<0, 1>>} ]

\* tickets in the statuses the 1.0.2 filter names and in two others
FilterTicket ==
    [ priority : {I(1)}, status : {I(2), I(4), I(5), I(13), I(14), I(15)},
      is_escalated : {FALSE},
      custom_fields : { [ticket_type |-> IP, account_tier |-> S("A"), environment |-> PROD],
                        [ticket_type |-> IP, account_tier |-> S("B")],
                        [ticket_type |-> IP, environment |-> PROD] },
      created_at : {<<0, 1>>} ]

\* ------------------------------------------------------- make_api_request
\* the default of the retries parameter (line 133)
DefaultRetries == 2

\* what one requests.request call can end in: a response with a status code
\* ("202" stands for a success status other than 200, "500" for a status
\* raise_for_status rejects), or an exception of requests
Outcomes ==
    {"200", "202", "401", "403", "429", "500", "Timeout", "ConnectionError"}

\* variant: every failed request is tried again while retries are left
HandlingRetryingAnyFailure(outcome, r) ==
    CASE outcome \in {"401", "403", "429"} -> "exit"
      [] outcome \in {"Timeout", "500", "ConnectionError"} ->
            IF r > 0 THEN "retry" ELSE "raise"
      [] OTHER -> "return"

\* variant: a 429 response is handed back to the caller
HandlingReturningRateLimited(outcome, r) ==
    CASE outcome \in {"401", "403"} -> "exit"
      [] outcome = "Timeout" -> IF r > 0 THEN "retry" ELSE "raise"
      [] outcome \in {"500", "ConnectionError"} -> "raise"
      [] OTHER -> "return"

\* what one execution of the body of make_api_request does with the outcome
\* of its request (lines 134-164): exit(1), sleep and call itself with
\* retries - 1, re-raise, or return the response
Handling(outcome, r) ==
    CASE outcome \in {"401", "403", "429"} -> "exit"
      [] outcome = "Timeout" -> IF r > 0 THEN "retry" ELSE "raise"
      [] outcome \in {"500", "ConnectionError"} -> "raise"
      [] OTHER -> "return"

\* the exception that leaves make_api_request on "raise"
Raised(outcome) ==
    CASE outcome = "Timeout" -> "Timeout"
      [] outcome = "500" -> "HTTPError"
      [] outcome = "ConnectionError" -> "ConnectionError"

\* the ERROR records make_api_request writes for an outcome (lines 137, 144,
\* 152 and 163); a timeout is not logged
ApiLog(outcome) ==
    IF outcome = "Timeout" \/ Handling(outcome, 0) = "return" THEN <<>>
    ELSE <<[level |-> "ERROR", message |-> outcome]>>

\* tickets whose account_tier key is there, with a value or with null
NullTierTicket ==
    [ priority : {I(4)}, status : {I(2)}, is_escalated : {FALSE},
      custom_fields : { [ticket_type |-> IP, account_tier |-> NONE, environment |-> PROD],
                        [ticket_type |-> IP, account_tier |-> S("D"), environment |-> PROD] },
      created_at : {<<0, 1>>} ]

\* a list of tickets as the ticket source delivers it: ids are unique
WithIds(f) ==
    [i \in DOMAIN f |->
        [id |-> i, department_id |-> I(7), subject |-> S("subject")] @@ f[i]]

\* the lists of at most two tickets of a set
UpToTwo(T) == UNION {[1..n -> T] : n \in 0..2}

\* the state main is in when the ticket source has answered: the list it
\* holds, the script that runs and the value of args.time_wait
MainFetched(lists, versions, waits) ==
    /\ \/ /\ source = "list"
          /\ \E f \in lists : tickets = WithIds(f)
       \/ /\ source = "None"
          /\ tickets = <<>>
    /\ version \in versions
    /\ given = tickets
    /\ log = <<>>
    /\ log_level \in {"WARNING", "DEBUG"}
    /\ raised = "none"
    /\ calls = 0
    /\ pc = "fetched"
    /\ sorted_tickets = "unbound"
    /\ rendered = [format |-> "none", rows |-> <<>>]
    /\ scoring_map = SCORING_MAP
    /\ interrupted = FALSE
    /\ time_wait \in waits
    /\ original_time_wait = time_wait
    /\ relabels = 0
    /\ args = [mode |-> "test", get_tickets |-> "omitted", file |-> "given"]
    /\ outcomes = IF version = "1.0.5" THEN <<"200">> ELSE <<>>
    /\ retries = DefaultRetries
    /\ page = 1

\* ---------------------------------------------------- main: the fetch phase
\* the most pages of departments a server hands out
MaxPages == 2

\* the ticket lists a file or the API delivers in the runs that start at the
\* command line
FetchedLists == UNION {[1..n -> ListTicket] : n \in 0..1}

\* the command lines parse_arguments accepts (lines 40-49), as far as main
\* branches on them
ArgValues ==
    [ mode : {"staging", "production", "test"},
      get_tickets : {"omitted", "mine", "mine_focused", "group", "group_focused"},
      file : {"omitted", "given"} ]

\* main up to its first call of get_company_names (lines 550-561)
MainStarted ==
    /\ args \in ArgValues
    /\ version = "1.0.5"
    /\ source = "unbound"
    /\ tickets = <<>>
    /\ given = <<>>
    /\ log = <<>>
    /\ log_level \in {"WARNING", "DEBUG"}
    /\ raised = "none"
    /\ calls = 0
    /\ pc = "companies"
    /\ sorted_tickets = "unbound"
    /\ rendered = [format |-> "none", rows |-> <<>>]
    /\ scoring_map = SCORING_MAP
    /\ interrupted = FALSE
    /\ time_wait = 500
    /\ original_time_wait = time_wait
    /\ relabels = 0
    /\ outcomes = <<>>
    /\ retries = DefaultRetries
    /\ page = 1

\* one execution of the body of make_api_request, called (or calling itself)
\* inside get_company_names (lines 532-546) or one of the get_*_tickets
\* functions (lines 167-232), and what the caller does with a returned
\* response
MakeApiRequest ==
    /\ pc \in {"companies", "get_tickets"}
    /\ raised = "none"
    /\ \E outcome \in Outcomes, departments \in BOOLEAN :
          LET handling == Handling(outcome, retries)
          IN  /\ departments => (pc = "companies" /\ handling = "return" /\ page < MaxPages)
              /\ log' = log \o ApiLog(outcome)
                            \o (IF handling = "return" /\ pc = "get_tickets"
                                   /\ outcome # "200"
                                THEN <<[level |-> "ERROR",
                                        message |-> "Failed to fetch tickets"]>>
                                ELSE <<>>)
              /\ CASE handling = "exit" ->
                        /\ outcomes' = Append(outcomes, outcome)
                        /\ raised' = "SystemExit"
                        /\ pc' = "exit"
                        /\ UNCHANGED <<tickets, given, source, retries, page>>
                   [] handling = "retry" ->
                        /\ outcomes' = Append(outcomes, outcome)
                        /\ retries' = retries - 1
                        /\ UNCHANGED <<tickets, given, source, raised, pc, page>>
                   [] handling = "raise" ->
                        /\ outcomes' = Append(outcomes, outcome)
                        /\ raised' = Raised(outcome)
                        /\ pc' = "exit"
                        /\ UNCHANGED <<tickets, given, source, retries, page>>
                   [] handling = "return" /\ pc = "companies" /\ departments ->
                        /\ page' = page + 1
                        /\ outcomes' = <<>>
                        /\ retries' = DefaultRetries
                        /\ UNCHANGED <<tickets, given, source, raised, pc>>
                   [] handling = "return" /\ pc = "companies" /\ ~departments ->
                        /\ outcomes' = Append(outcomes, outcome)
                        /\ pc' = "branch"
                        /\ UNCHANGED <<tickets, given, source, raised, retries, page>>
                   [] handling = "return" /\ pc = "get_tickets" ->
                        /\ outcomes' = Append(outcomes, outcome)
                        /\ pc' = "fetched"
                        /\ IF outcome = "200"
                           THEN /\ source' = "list"
                                /\ \E f \in FetchedLists : tickets' = WithIds(f)
                           ELSE /\ source' = "None"
                                /\ UNCHANGED tickets
                        /\ given' = tickets'
                        /\ UNCHANGED <<raised, retries, page>>
    /\ UNCHANGED <<log_level, calls, version, sorted_tickets, rendered,
                   scoring_map, interrupted, time_wait, original_time_wait,
                   relabels, args>>

\* main lines 563-576: the branch on args.mode and args.get_tickets, with
\* read_json_file (lines 517-528) and the start of the get_*_tickets function
FetchTickets ==
    /\ pc = "branch"
    /\ raised = "none"
    /\ IF args.mode = "test"
       THEN IF args.file = "omitted"
            THEN /\ raised' = "SystemExit"
                 /\ pc' = "exit"
                 /\ UNCHANGED <<tickets, given, source, log, outcomes, retries>>
            ELSE \E content \in {"list", "null", "invalid", "missing"} :
                    /\ CASE content = "list" ->
                              /\ source' = "list"
                              /\ \E f \in FetchedLists : tickets' = WithIds(f)
                              /\ pc' = "fetched"
                              /\ UNCHANGED <<log, raised>>
                         [] content = "null" ->
                              /\ source' = "None"
                              /\ pc' = "fetched"
                              /\ UNCHANGED <<tickets, log, raised>>
                         [] OTHER ->
                              /\ log' = log \o <<[level |-> "ERROR", message |-> content]>>
                              /\ raised' = "SystemExit"
                              /\ pc' = "exit"
                              /\ UNCHANGED <<tickets, source>>
                    /\ given' = tickets'
                    /\ UNCHANGED <<outcomes, retries>>
       ELSE IF args.get_tickets = "omitted"
            THEN /\ pc' = "fetched"
                 /\ UNCHANGED <<tickets, given, source, log, raised, outcomes, retries>>
            ELSE \E id_set \in BOOLEAN :
                    IF id_set
                    THEN /\ pc' = "get_tickets"
                         /\ outcomes' = <<>>
                         /\ retries' = DefaultRetries
                         /\ UNCHANGED <<tickets, given, source, log, raised>>
                    ELSE /\ log' = log \o <<[level |-> "ERROR", message |-> "id not found"]>>
                         /\ raised' = "SystemExit"
                         /\ pc' = "exit"
                         /\ UNCHANGED <<tickets, given, source, outcomes, retries>>
    /\ UNCHANGED <<log_level, calls, version, sorted_tickets, rendered,
                   scoring_map, interrupted, time_wait, original_time_wait,
                   relabels, args, page>>

Init ==
    \/ MainFetched(UNION {[1..n -> ListTicket] : n \in 0..MaxTickets}
                     \cup {<<t>> : t \in AnyTicket \cup StatusTicket}
                     \cup [1..2 -> PairTicket],
                   {"1.0.5"}, {500})
    \/ MainFetched(UpToTwo(FilterTicket), {"1.0.5", "1.0.2"}, {500})
    \/ MainFetched([1..2 -> PairTicket] \cup [1..2 -> NullTierTicket]
                     \cup UpToTwo(FilterTicket),
                   {"1.0.3"}, {500})

Next ==
    \/ CheckTickets
    \/ SortTickets
    \/ MakeReadable
    \/ Display
    \/ SortTickets102
    \/ FilterTickets102
    \/ Display102
    \/ SortTickets103

Spec == Init /\ [][Next]_vars

\* the run of releases/fscommander.py with SIGINT arriving at any moment and
\* with several values of args.time_wait
InitSignals ==
    MainFetched([1..2 -> PairTicket] \cup {<<t>> : t \in StatusTicket},
                {"1.0.5"}, {0, 500})

NextSignals ==
    \/ CheckTickets
    \/ SortTickets
    \/ MakeReadable
    \/ Display
    \/ SignalHandler

SpecSignals == InitSignals /\ [][NextSignals]_vars

\* complete tickets of priority 4 that differ in escalation, type, tier and
\* environment only
TableTicket ==
    [ priority : {I(4)}, status : {I(2)}, is_escalated : BOOLEAN,
      custom_fields : [ticket_type : {IP, SR}, account_tier : {S("A"), S("C"), S("E")},
                       environment : {PROD, LAB}],
      created_at : {<<0, 1>>} ]

\* main from the fetch to the ranking, on lists of two such tickets
InitTable == MainFetched([1..2 -> TableTicket], {"1.0.5"}, {500})

NextTable ==
    \/ CheckTickets
    \/ SortTickets

SpecTable == InitTable /\ [][NextTable]_vars

\* tickets for the callers that apply the two functions repeatedly
CallTicket ==
    [ priority : {I(4)}, status : {I(2), I(15)}, is_escalated : BOOLEAN,
      custom_fields : {[ticket_type |-> IP, account_tier |-> S("A"), environment |-> PROD]},
      created_at : {<<0, 1>>, <<0, 2>>} ]

\* a caller that holds a ticket list and calls sort_tickets and
\* make_status_priority_readable on it in any order
InitCalls ==
    MainFetched([1..2 -> CallTicket] \cup {<<t>> : t \in StatusTicket},
                {"1.0.5"}, {500})

NextCalls ==
    \/ CheckTickets
    \/ SortTickets
    \/ CallMakeReadable

SpecCalls == InitCalls /\ [][NextCalls]_vars

\* the run of releases/fscommander.py from the command line on
InitRun == MainStarted

NextRun ==
    \/ MakeApiRequest
    \/ FetchTickets
    \/ CheckTickets
    \/ SortTickets
    \/ MakeReadable
    \/ Display

\* every step of the run is a step of the one Python thread, which goes on
\* as long as a step is left to take
SpecRun == InitRun /\ [][NextRun]_vars /\ WF_vars(NextRun)

\* ------------------------------------------------------ helper predicates
\* sort_tickets has scored the list and main has not relabelled it yet
Scored == calls > 0 /\ pc = "rank"

\* sort_tickets has been called and has returned its list
Returned == Scored /\ raised = "none"

\* a ticket without the two keys sort_tickets adds
Arrived(t) == [k \in DOMAIN t \ {"score", "sort_key"} |-> t[k]]

\* position of the ticket with this id in a list
PosOf(ts, id) == CHOOSE j \in 1..Len(ts) : ts[j].id = id

\* the account_tier / environment key is absent or null
Missing(t, field) == DictGet(t.custom_fields, field, NONE) = NONE

\* ------------------------------------------------------------------ claims

\* C1: the list returned by sort_tickets is ordered by score descending and,
\* among equal scores, by created_at ascending (adjacent pairs).
C1_OrderedByScoreThenCreatedAt ==
    Returned =>
        \A i \in 1..(Len(tickets) - 1) :
            /\ tickets[i].score >= tickets[i + 1].score
            /\ tickets[i].score = tickets[i + 1].score
                  => ~StrLess(tickets[i + 1].created_at, tickets[i].created_at)

\* C1 witness: two tickets both scoring 76 arrived later-created first and
\* were returned earlier-created first, ahead of a lower-scoring ticket.
C1_Witness ==
    /\ Returned
    /\ Len(tickets) >= 3
    /\ tickets[1].score = 76 /\ tickets[2].score = 76
    /\ StrLess(tickets[1].created_at, tickets[2].created_at)
    /\ PosOf(given, tickets[2].id) < PosOf(given, tickets[1].id)
    /\ tickets[3].score < 76

\* C2: after a call of sort_tickets the list is a permutation of the list it
\* was given (same length, every given ticket exactly once), and an empty
\* list is returned empty without an error.
C2_Permutation ==
    /\ Scored =>
          /\ Len(tickets) = Len(given)
          /\ \A j \in 1..Len(given) :
                Cardinality({i \in 1..Len(tickets) :
                                Arrived(tickets[i]) = Arrived(given[j])}) = 1
    /\ (Scored /\ given = <<>>) => (tickets = <<>> /\ raised = "none")

\* C2 witness: a list of at least three tickets was returned in another
\* order than it arrived in.
C2_Witness ==
    /\ Returned
    /\ Len(tickets) >= 3
    /\ \E i \in 1..Len(tickets) : tickets[i].id # given[i].id

\* C3: tickets with the same score and the same created_at are returned in
\* the order in which they were given.
C3_Stable ==
    Returned =>
        \A i, j \in 1..Len(tickets) :
            (/\ i < j
             /\ tickets[i].score = tickets[j].score
             /\ tickets[i].created_at = tickets[j].created_at)
            => PosOf(given, tickets[i].id) < PosOf(given, tickets[j].id)

\* C3 witness: two tickets that tie on both fields were separated in the
\* given list by a ticket that was returned after both of them.
C3_Witness ==
    /\ Returned
    /\ calls = 1
    /\ Len(tickets) >= 3
    /\ tickets[1].score = tickets[2].score
    /\ tickets[1].created_at = tickets[2].created_at
    /\ given[2].id = tickets[3].id

\* C4: calling sort_tickets on the list a previous call returned gives back
\* the same list: same order, same scores.
C4_Idempotent ==
    (calls >= 2 /\ Returned) => tickets = given

\* C4 witness: a returned list with a tie on both fields and two different
\* scores has been ranked a second time.
C4_Witness ==
    /\ calls >= 2 /\ Returned
    /\ Len(tickets) >= 3
    /\ tickets[1].sort_key = tickets[2].sort_key
    /\ tickets[2].score > tickets[3].score

\* C5: the score sort_tickets stores for a ticket is an integer in 0..76,
\* whatever the ticket's tier, priority, environment, type and escalation.
C5_ScoreInRange ==
    Scored => \A i \in 1..Len(tickets) : tickets[i].score \in 0..76

\* C5 witness: a ticket with an unknown tier, environment and type and a
\* priority outside 1..4 has been scored.
C5_Witness ==
    /\ Scored
    /\ \E i \in 1..Len(tickets) :
          /\ DictGet(tickets[i].custom_fields, "account_tier", NONE) = S("Z")
          /\ DictGet(tickets[i].custom_fields, "environment", NONE) = S("Other")
          /\ tickets[i].custom_fields.ticket_type = S("Other")
          /\ tickets[i].priority = I(5)
          /\ tickets[i].score = 0

\* the ticket with another priority and ticket_type
WithPriorityAndType(t, p, ty) ==
    [t EXCEPT !.priority = p, !.custom_fields.ticket_type = ty]

\* C6: the score of an escalated ticket is the same for every priority and
\* every ticket_type it could have had; tier A, escalated, Lab scores 65.
C6_EscalatedIgnoresPriorityAndType ==
    Scored =>
        \A i \in 1..Len(tickets) :
            tickets[i].is_escalated =>
                /\ \A p \in PriorityValues, ty \in TypeValues :
                      -calculate_sort_key(WithPriorityAndType(tickets[i], p, ty))[1]
                          = tickets[i].score
                /\ (/\ DictGet(tickets[i].custom_fields, "account_tier", NONE) = S("A")
                    /\ DictGet(tickets[i].custom_fields, "environment", NONE) = LAB)
                   => tickets[i].score = 65

\* C6 witness: an escalated tier A Lab ticket of priority 4 and type
\* Incident or Problem (75 if it were not escalated) has been scored 65.
C6_Witness ==
    /\ Scored
    /\ \E i \in 1..Len(tickets) :
          /\ tickets[i].is_escalated
          /\ tickets[i].priority = I(4)
          /\ tickets[i].custom_fields = [ticket_type |-> IP, account_tier |-> S("A"),
                                         environment |-> LAB]
          /\ tickets[i].score = 65

\* C7: a ticket whose lookup key is not in the policy table gets score 0 and
\* is returned after every ticket with a nonzero score.
C7_UnmappedKeyScoresZeroAndSinks ==
    Scored =>
        \A i \in 1..Len(tickets) :
            (\/ ScoreKey(tickets[i]) \notin DOMAIN SCORING_MAP
             \/ ~tickets[i].is_escalated /\ tickets[i].priority \notin {I(1), I(2), I(3), I(4)}) =>
                /\ tickets[i].score = 0
                /\ \A j \in 1..Len(tickets) : tickets[j].score > 0 => j < i

\* C7 witness: a ticket of priority 5 arrived first and was returned last,
\* behind a ticket with a nonzero score.
C7_Witness ==
    /\ Returned
    /\ Len(tickets) >= 2
    /\ tickets[Len(tickets)].priority = I(5)
    /\ tickets[Len(tickets)].score = 0
    /\ tickets[Len(tickets)].id = given[1].id
    /\ tickets[1].score > 0

\* the ticket with the documented defaults written into its custom_fields
Filled(t) ==
    [t EXCEPT !.custom_fields =
        [ticket_type |-> t.custom_fields.ticket_type,
         account_tier |-> IF Missing(t, "account_tier") THEN S("C")
                          ELSE t.custom_fields.account_tier,
         environment |-> IF Missing(t, "environment") THEN PROD
                         ELSE t.custom_fields.environment]]

\* C8: a ticket with a missing account_tier or environment gets the score of
\* the same ticket with tier C / environment Production filled in; with both
\* missing, priority 2, Incident or Problem, not escalated, the score is 38.
C8_MissingFieldsScoredAsDefaults ==
    Scored =>
        \A i \in 1..Len(tickets) :
            (Missing(tickets[i], "account_tier") \/ Missing(tickets[i], "environment")) =>
                /\ tickets[i].score = -calculate_sort_key(Filled(tickets[i]))[1]
                /\ (/\ Missing(tickets[i], "account_tier")
                    /\ Missing(tickets[i], "environment")
                    /\ tickets[i].priority = I(2)
                    /\ tickets[i].custom_fields.ticket_type = IP
                    /\ ~tickets[i].is_escalated)
                   => tickets[i].score = 38

\* C8 witness: a ticket without an account_tier key and with a null
\* environment, priority 2, Incident or Problem, not escalated, scored 38.
C8_Witness ==
    /\ Scored
    /\ \E i \in 1..Len(tickets) :
          /\ tickets[i].custom_fields = [ticket_type |-> IP, environment |-> NONE]
          /\ tickets[i].priority = I(2)
          /\ ~tickets[i].is_escalated
          /\ tickets[i].score = 38

\* number of warnings in the log about this field of the ticket with this id
WarningsAbout(id, field) ==
    Cardinality({n \in 1..Len(log) :
                    log[n] = [level |-> "WARNING", id |-> id, field |-> field]})

\* C9: after one run of sort_tickets, at either log level, the run has
\* returned normally and the log holds exactly one diagnostic for every
\* (ticket, missing field) pair and none for a field that is present.
C9_MissingFieldIsNotAnError ==
    calls = 1 =>
        /\ raised = "none"
        /\ \A i \in 1..Len(tickets) : \A field \in {"account_tier", "environment"} :
              WarningsAbout(tickets[i].id, field)
                  = IF Missing(tickets[i], field) THEN 1 ELSE 0

\* C10: the policy table has exactly 76 entries; a scored ticket with key
\* (A, 4, Production, Incident or Problem) has score 76 and no ticket scores
\* higher; one with key (E, 1, Lab, Service request) has score 1 and no
\* ticket whose key is in the table scores lower.
C10_TableSizeAndExtremes ==
    /\ Cardinality(DOMAIN SCORING_MAP) = 76
    /\ Scored =>
          \A i \in 1..Len(tickets) :
              /\ tickets[i].score <= 76
              /\ ScoreKey(tickets[i]) \in DOMAIN SCORING_MAP => tickets[i].score >= 1
              /\ (/\ ~tickets[i].is_escalated
                  /\ tickets[i].priority = I(4)
                  /\ tickets[i].custom_fields = [ticket_type |-> IP, account_tier |-> S("A"),
                                                 environment |-> PROD])
                 => tickets[i].score = 76
              /\ (/\ ~tickets[i].is_escalated
                  /\ tickets[i].priority = I(1)
                  /\ tickets[i].custom_fields = [ticket_type |-> SR, account_tier |-> S("E"),
                                                 environment |-> LAB])
                 => tickets[i].score = 1

\* C10 witness: a tier E, priority 1, Lab, Service request ticket that is not
\* escalated has been scored 1.
C10_Witness ==
    /\ Scored
    /\ \E i \in 1..Len(tickets) :
          /\ ~tickets[i].is_escalated
          /\ tickets[i].priority = I(1)
          /\ tickets[i].custom_fields = [ticket_type |-> SR, account_tier |-> S("E"),
                                         environment |-> LAB]
          /\ tickets[i].score = 1

\* a non-escalated Service request of priority 4 and tier D or E, in
\* Production or Lab
LowTierUrgentServiceRequest(t) ==
    /\ ~t.is_escalated
    /\ t.priority = I(4)
    /\ t.custom_fields.ticket_type = SR
    /\ TierUsed(t) \in {S("D"), S("E")}
    /\ EnvUsed(t) \in {PROD, LAB}

\* an escalated tier E ticket in Production or Lab
EscalatedTierE(t) ==
    /\ t.is_escalated
    /\ TierUsed(t) = S("E")
    /\ EnvUsed(t) \in {PROD, LAB}

\* C11 as claimed: an escalated tier E ticket scores 0, and a non-escalated
\* tier D or E Service request of priority 4 scores 0.
C11_OmittedCombinationsScoreZero ==
    Scored =>
        \A i \in 1..Len(tickets) :
            (EscalatedTierE(tickets[i]) \/ LowTierUrgentServiceRequest(tickets[i]))
                => tickets[i].score = 0

\* C11 as amended: an escalated tier E ticket scores 30 in Production and 29
\* in Lab (both keys are in the table); a non-escalated tier D or E Service
\* request of priority 4 scores 0.
C11_TierEEscalatedIsRanked ==
    Scored =>
        \A i \in 1..Len(tickets) :
            /\ EscalatedTierE(tickets[i]) =>
                  tickets[i].score = IF EnvUsed(tickets[i]) = PROD THEN 30 ELSE 29
            /\ LowTierUrgentServiceRequest(tickets[i]) => tickets[i].score = 0

\* C11 witness: an escalated tier E Production ticket has been scored 30.
C11_Witness ==
    /\ Scored
    /\ \E i \in 1..Len(tickets) :
          /\ EscalatedTierE(tickets[i])
          /\ EnvUsed(tickets[i]) = PROD
          /\ tickets[i].score = 30

\* an escalated tier C ticket in Lab
EscalatedTierCLab(t) ==
    /\ t.is_escalated
    /\ TierUsed(t) = S("C")
    /\ EnvUsed(t) = LAB

\* a non-escalated tier A Service request of priority 4 (Urgent)
UrgentTierAServiceRequest(t) ==
    /\ ~t.is_escalated
    /\ TierUsed(t) = S("A")
    /\ t.priority = I(4)
    /\ t.custom_fields.ticket_type = SR

\* C12: an escalated tier C ticket in Lab outranks some non-escalated tier A
\* ticket of priority 4: whenever it is scored together with a tier A Urgent
\* Service request, its score is the higher one and it is placed first.
C12_EscalatedTierCLabOutranksTierAUrgent ==
    Scored =>
        \A i, j \in 1..Len(tickets) :
            (EscalatedTierCLab(tickets[i]) /\ UrgentTierAServiceRequest(tickets[j]))
                => /\ tickets[i].score > tickets[j].score
                   /\ i < j

\* C12 witness: the tier A Urgent Service request arrived first and an
\* escalated tier C Lab ticket has been placed before it.
C12_Witness ==
    /\ Returned
    /\ Len(tickets) = 2
    /\ UrgentTierAServiceRequest(given[1])
    /\ EscalatedTierCLab(given[2])
    /\ tickets[1].id = 2
    /\ tickets[1].score = 61
    /\ tickets[2].score < 61

\* C13 as claimed: after sort_tickets has returned, the list that was passed
\* in still holds the tickets it was given, in arrival order and without any
\* added or changed field; the result is another list.
C13_InputLeftUntouched ==
    (Returned /\ calls = 1) =>
        /\ tickets = given
        /\ sorted_tickets # "tickets"

\* C14: every ticket sort_tickets has scored carries the integer the table
\* holds for its lookup key (0 when the key is not in the table), and every
\* field the ticket arrived with has the value it arrived with.
C14_ScoreAddedFieldsKept ==
    Scored =>
        \A i \in 1..Len(tickets) :
            /\ tickets[i].score \in Int
            /\ tickets[i].score = DictGet(SCORING_MAP, ScoreKey(tickets[i]), 0)
            /\ Arrived(tickets[i]) = Arrived(given[PosOf(given, tickets[i].id)])
            /\ {"id", "department_id", "subject", "priority", "status",
                "is_escalated", "custom_fields", "created_at"}
                   \subseteq DOMAIN tickets[i]

\* C14 witness: a ticket that arrived with a null account_tier has been
\* scored from the default and still carries the null.
C14_Witness ==
    /\ Returned
    /\ \E i \in 1..Len(tickets) :
          /\ "account_tier" \in DOMAIN tickets[i].custom_fields
          /\ tickets[i].custom_fields.account_tier = NONE
          /\ tickets[i].score > 0
          /\ tickets[i].priority = I(4)

\* C15 as claimed: whatever display function prints the ranked tickets, the
\* account_tier and the environment it reports for a ticket are the values
\* the score was computed from, also for a ticket whose key is absent or
\* whose value is null.
C15_DefaultsVisibleInEveryDisplay ==
    (version = "1.0.5" /\ pc = "done") =>
        \A i \in 1..Len(tickets) :
            /\ rendered.rows[i].account_tier = TierUsed(tickets[i])
            /\ rendered.rows[i].environment = EnvUsed(tickets[i])

\* make_status_priority_readable has relabelled the list main holds
Relabelled == pc \in {"display", "done"}

\* the priority labels, by code
PriorityLabel(n) ==
    CASE n = 1 -> S("Low") [] n = 2 -> S("Medium") [] n = 3 -> S("High")
      [] n = 4 -> S("Urgent")

\* C16: make_status_priority_readable does not fail; a status code 2..14
\* becomes its label (13 labels, none of them "Unknown Status"), priority
\* codes 1..4 become Low, Medium, High, Urgent, and any other code becomes
\* "Unknown Status" / "Unknown Priority".
C16_RelabelIsTotal ==
    /\ DOMAIN status_mapping = {I(n) : n \in 2..14}
    /\ DOMAIN priority_mapping = {I(n) : n \in 1..4}
    /\ ((version = "1.0.5" /\ pc = "display") => raised = "none")
    /\ Relabelled =>
        \A i \in 1..Len(tickets) :
            LET before == given[PosOf(given, tickets[i].id)]
            IN  /\ IF before.status \in {I(n) : n \in 2..14}
                   THEN /\ tickets[i].status = status_mapping[before.status]
                        /\ tickets[i].status # S("Unknown Status")
                   ELSE tickets[i].status = S("Unknown Status")
                /\ IF before.priority \in {I(n) : n \in 1..4}
                   THEN tickets[i].priority = PriorityLabel(before.priority[2])
                   ELSE tickets[i].priority = S("Unknown Priority")

\* C16 witness: a ticket that arrived with status 15 and priority 5 has been
\* relabelled "Unknown Status" / "Unknown Priority" without an error.
C16_Witness ==
    /\ pc = "display"
    /\ raised = "none"
    /\ \E i \in 1..Len(tickets) :
          /\ given[PosOf(given, tickets[i].id)].status = I(15)
          /\ given[PosOf(given, tickets[i].id)].priority = I(5)
          /\ tickets[i].status = S("Unknown Status")
          /\ tickets[i].priority = S("Unknown Priority")

\* C17: when the ticket source has answered None, sort_tickets is never
\* called and nothing is ranked or rendered; the run ends in main's check
\* with an ERROR record and SystemExit.
C17_NoneIsRefusedBeforeRanking ==
    source = "None" =>
        /\ calls = 0
        /\ sorted_tickets = "unbound"
        /\ rendered.format = "none"
        /\ pc \in {"fetched", "exit"}
        /\ pc = "exit" =>
              /\ raised = "SystemExit"
              /\ log = <<[level |-> "ERROR", message |-> "Failed to retrieve tickets"]>>

\* C17 witness: the source answered None and the run has ended in main's
\* check.
C17_Witness ==
    /\ source = "None"
    /\ pc = "exit"
    /\ raised = "SystemExit"
    /\ calls = 0

\* C18: no step of the run changes SCORING_MAP, and the score sort_tickets
\* gives a ticket is the table's value for the ticket's lookup key and
\* nothing else: the same key gets the same score whether or not SIGINT has
\* set the interrupted flag, whatever args.time_wait is, wherever the ticket
\* stands in the list and however often sort_tickets has run.
C18_ScoreDependsOnKeyOnly ==
    /\ scoring_map = SCORING_MAP
    /\ Scored =>
          /\ \A i \in 1..Len(tickets) :
                tickets[i].score = DictGet(SCORING_MAP, ScoreKey(tickets[i]), 0)
          /\ \A i, j \in 1..Len(tickets) :
                ScoreKey(tickets[i]) = ScoreKey(tickets[j])
                    => tickets[i].score = tickets[j].score

\* C18 witness: after SIGINT, with args.time_wait = 0, the second call of
\* sort_tickets has given two tickets with the same key the same table
\* score.
C18_Witness ==
    /\ Scored
    /\ calls = 2
    /\ interrupted
    /\ time_wait = 0
    /\ Len(tickets) = 2
    /\ ScoreKey(tickets[1]) = ScoreKey(tickets[2])
    /\ tickets[1].score = 61
    /\ tickets[2].score = 61

\* the ids of a list of tickets or of printed rows
Ids(ts) == {ts[i].id : i \in 1..Len(ts)}

\* the statuses the filter of 1.0.2 names
FilteredStatuses == {I(4), I(5), I(13), I(14)}

\* C19: what releases/fscommander.py renders holds every ticket the source
\* delivered, once each, whatever its status (4, 5, 13 and 14 included);
\* in 1.0.2 the list that goes on after the sort, and what is rendered, holds
\* exactly the delivered tickets whose status is not 4, 5, 13 or 14.
C19_OnlyTheOldVariantFiltersByStatus ==
    /\ (version = "1.0.5" /\ pc = "done") =>
          /\ Len(rendered.rows) = Len(given)
          /\ Ids(rendered.rows) = Ids(given)
    /\ (version = "1.0.2" /\ pc \in {"relabel", "display", "done"}) =>
          /\ Ids(tickets)
               = {given[i].id : i \in {j \in 1..Len(given) :
                                         given[j].status \notin FilteredStatuses}}
          /\ Cardinality(Ids(tickets)) = Len(tickets)
          /\ pc = "done" =>
                /\ Ids(rendered.rows) = Ids(tickets)
                /\ Len(rendered.rows) = Len(tickets)

\* C19 witness: releases/fscommander.py has rendered both tickets of a list
\* whose tickets have two of the statuses 4, 5, 13 and 14.
C19_Witness ==
    /\ version = "1.0.5"
    /\ pc = "done"
    /\ Len(given) = 2
    /\ given[1].status \in FilteredStatuses
    /\ given[2].status \in FilteredStatuses
    /\ given[1].status # given[2].status
    /\ Ids(rendered.rows) = {1, 2}
    /\ \A i \in 1..2 : rendered.rows[i].status \in {S("Resolved"), S("Closed"),
                                                     S("Rejected"), S("Duplicate")}

\* the instant a created_at string of the fixed, zero-padded format names;
\* the strings of the model differ in the two digits of the day only
Instant(created_at) == 10 * created_at[1] + created_at[2]

\* C20: among tickets of equal score the one with the earlier instant stands
\* first: the string comparison of the sort agrees with the order of the
\* instants on created_at strings of the fixed format.
C20_TiebreakIsChronological ==
    Returned =>
        \A i, j \in 1..Len(tickets) :
            ( /\ tickets[i].score = tickets[j].score
              /\ Instant(tickets[i].created_at) < Instant(tickets[j].created_at) )
                => i < j

\* C20 witness: two tickets of equal score arrived as day "10" then day
\* "09" and have been put in the order "09", "10".
C20_Witness ==
    /\ Returned
    /\ Len(tickets) = 2
    /\ given[1].created_at = <<1, 0>>
    /\ given[2].created_at = <<0, 9>>
    /\ tickets[1].score = tickets[2].score
    /\ tickets[1].created_at = <<0, 9>>
    /\ tickets[2].created_at = <<1, 0>>

\* a priority that is still the numeric code
NumericPriority(t) == t.priority[1] = "int"

\* C21: main ranks before it relabels.  While sort_tickets has the list the
\* priorities are the numeric codes and no relabelling has been done;
\* relabelling happens once, after the sort; and the score a relabelled or
\* rendered ticket carries is the table's value for the key of the ticket as
\* it was handed to sort_tickets, numeric priority included.
C21_ScoringPrecedesRelabelling ==
    /\ pc \in {"fetched", "rank", "filter", "relabel"} =>
          /\ relabels = 0
          /\ \A i \in 1..Len(tickets) : NumericPriority(tickets[i])
    /\ Relabelled =>
          /\ relabels = 1
          /\ sorted_tickets = "tickets"
          /\ \A i \in 1..Len(given) : NumericPriority(given[i])
    /\ (version = "1.0.5" /\ Relabelled) =>
          /\ calls >= 1
          /\ \A i \in 1..Len(tickets) :
                LET before == given[PosOf(given, tickets[i].id)]
                IN  /\ tickets[i].score = DictGet(SCORING_MAP, ScoreKey(before), 0)
                    /\ (pc = "done" /\ "score" \in DOMAIN rendered.rows[i])
                          => rendered.rows[i].score = tickets[i].score

\* C21 witness: a ticket that arrived with priority 4 has been rendered as
\* "Urgent" with the score 76 of its numeric key.
C21_Witness ==
    /\ version = "1.0.5"
    /\ pc = "done"
    /\ rendered.format = "json"
    /\ \E i \in 1..Len(tickets) :
          /\ given[PosOf(given, tickets[i].id)].priority = I(4)
          /\ rendered.rows[i].priority = S("Urgent")
          /\ rendered.rows[i].score = 76

\* C22: make_status_priority_readable writes into the tickets of the list
\* it is given and is not idempotent.  After one call status and priority
\* are strings; after a second call on the same list every status is
\* "Unknown Status" and every priority "Unknown Priority"; and when
\* sort_tickets is called on a relabelled list, every ticket that is not
\* escalated gets score 0.
C22_RelabelTwiceLosesTheLabels ==
    (version = "1.0.5" /\ pc = "rank" /\ source = "list") =>
        /\ relabels >= 1 =>
              \A i \in 1..Len(tickets) :
                 /\ tickets[i].status[1] = "str"
                 /\ tickets[i].priority[1] = "str"
        /\ relabels >= 2 =>
              \A i \in 1..Len(tickets) :
                 /\ tickets[i].status = S("Unknown Status")
                 /\ tickets[i].priority = S("Unknown Priority")
        /\ calls >= 1 =>
              \A i \in 1..Len(tickets) :
                 LET before == given[PosOf(given, tickets[i].id)]
                 IN  (~NumericPriority(before) /\ ~tickets[i].is_escalated)
                        => tickets[i].score = 0

\* C22 witness: a list has been ranked, relabelled twice and ranked again;
\* its ticket that arrived as priority 4, status 2 now reads "Unknown
\* Priority", "Unknown Status" and has score 0.
C22_Witness ==
    /\ pc = "rank"
    /\ relabels = 2
    /\ calls = 2
    /\ Len(tickets) = 2
    /\ \E i \in 1..2 :
          /\ ~tickets[i].is_escalated
          /\ given[PosOf(given, tickets[i].id)].priority = S("Unknown Priority")
          /\ tickets[i].status = S("Unknown Status")
          /\ tickets[i].score = 0
    /\ \E i \in 1..2 :
          /\ tickets[i].is_escalated
          /\ tickets[i].score = 66

\* a ticket with an account_tier and an environment
Complete(t) == ~Missing(t, "account_tier") /\ ~Missing(t, "environment")

\* the ids of a list, in list order
IdsInOrder(ts) == [i \in 1..Len(ts) |-> ts[i].id]

\* a ticket whose custom_fields has the keys account_tier and environment
KeysPresent(t) ==
    {"account_tier", "environment"} \subseteq DOMAIN t.custom_fields

\* C23 as claimed: the two tables are equal, and when every ticket of a list
\* has the account_tier and the environment field, sort_tickets of 1.0.3
\* leaves the list in the order sort_tickets of releases/fscommander.py puts
\* it in.
C23_SameRankingWhenFieldsPresent ==
    /\ scoring_map103 = SCORING_MAP
    /\ (version = "1.0.3" /\ pc = "relabel"
          /\ \A i \in 1..Len(given) : KeysPresent(given[i]))
         => IdsInOrder(tickets) = IdsInOrder(SortedTickets(given))

\* C23 as amended: the table of fscommander-1.0.3.py has the same keys and
\* values as SCORING_MAP, and when every ticket of a list has an account_tier and an
\* environment that are not null, sort_tickets of 1.0.3 leaves the list in
\* the order sort_tickets of releases/fscommander.py puts it in.
C23_SameRankingOnCompleteTickets ==
    /\ scoring_map103 = SCORING_MAP
    /\ (version = "1.0.3" /\ pc = "relabel"
          /\ \A i \in 1..Len(given) : Complete(given[i]))
         => IdsInOrder(tickets) = IdsInOrder(SortedTickets(given))

\* C23 witness: sort_tickets of 1.0.3 has exchanged two complete tickets of
\* different score, as sort_tickets of releases/fscommander.py does.
C23_Witness ==
    /\ version = "1.0.3"
    /\ pc = "relabel"
    /\ Len(tickets) = 2
    /\ Complete(given[1]) /\ Complete(given[2])
    /\ IdsInOrder(tickets) = <<2, 1>>
    /\ IdsInOrder(SortedTickets(given)) = <<2, 1>>
    /\ calculate_sort_key103(given[1]) # calculate_sort_key103(given[2])

\* the values of a dict
Values(d) == {d[k] : k \in DOMAIN d}

\* C24: the table (in releases/fscommander.py and in 1.0.3) has 76 keys and
\* the 76 values 1..76, so no value is used twice; two scored tickets with
\* the same score have the same lookup key or both have score 0.
C24_TableIsInjective ==
    /\ Cardinality(DOMAIN scoring_map) = 76
    /\ Values(scoring_map) = 1..76
    /\ Cardinality(DOMAIN scoring_map103) = 76
    /\ Values(scoring_map103) = 1..76
    /\ Scored =>
          \A i, j \in 1..Len(tickets) :
              tickets[i].score = tickets[j].score
                  => \/ tickets[i].score = 0
                     \/ ScoreKey(tickets[i]) = ScoreKey(tickets[j])

\* C24 witness: two tickets with different lookup keys have both been
\* scored 0.
C24_Witness ==
    /\ Scored
    /\ Len(tickets) = 2
    /\ ScoreKey(tickets[1]) # ScoreKey(tickets[2])
    /\ tickets[1].score = 0
    /\ tickets[2].score = 0

\* the tiers in the order of the customers' rank
TierOrder == <<S("A"), S("B"), S("C"), S("D"), S("E")>>

\* the same lookup key with another environment, with another tier
WithEnv(k, env) == [k EXCEPT ![3] = env]
WithTier(k, tier) == [k EXCEPT ![1] = tier]

\* C25: for every Lab key of the table the Production key is in the table
\* with a value higher by 1; and with the rest of the key fixed the value
\* (0 for a key that is not in the table) does not go up from one tier to
\* the next lower one.  Scored together, a ticket whose key is the
\* Production twin of another ticket's Lab key has a score higher by 1 and
\* stands before it.
C25_MonotoneInEnvironmentAndTier ==
    /\ \A k \in DOMAIN scoring_map :
          /\ k[3] = LAB =>
                /\ WithEnv(k, PROD) \in DOMAIN scoring_map
                /\ scoring_map[WithEnv(k, PROD)] = scoring_map[k] + 1
          /\ \A n \in 1..4 :
                DictGet(scoring_map, WithTier(k, TierOrder[n]), 0)
                   >= DictGet(scoring_map, WithTier(k, TierOrder[n + 1]), 0)
    /\ Scored =>
          \A i, j \in 1..Len(tickets) :
              ( /\ ScoreKey(tickets[j]) \in DOMAIN scoring_map
                /\ ScoreKey(tickets[j])[3] = LAB
                /\ ScoreKey(tickets[i]) = WithEnv(ScoreKey(tickets[j]), PROD) )
                  => /\ tickets[i].score = tickets[j].score + 1
                     /\ i < j

\* C25 witness: a Lab ticket arrived before its Production twin and has been
\* placed after it, one point below.
C25_Witness ==
    /\ Scored
    /\ Len(tickets) = 2
    /\ EnvUsed(given[1]) = LAB
    /\ ScoreKey(given[2]) = WithEnv(ScoreKey(given[1]), PROD)
    /\ tickets[1].id = 2
    /\ tickets[2].score > 0
    /\ tickets[1].score = tickets[2].score + 1

\* a non-escalated "Incident or Problem" ticket of priority 4 with a tier
\* A..E, in Production or Lab
UrgentIncident(t) ==
    /\ ~t.is_escalated
    /\ t.priority = I(4)
    /\ t.custom_fields.ticket_type = IP
    /\ TierUsed(t) \in {S("A"), S("B"), S("C"), S("D"), S("E")}
    /\ EnvUsed(t) \in {PROD, LAB}

\* C26: every priority 4 "Incident or Problem" key of the table has a value
\* of at least 67 and every escalated key a value of at most 66, so a
\* non-escalated priority 4 incident is scored above every escalated ticket
\* and stands before it.
C26_UrgentIncidentsOutrankEscalated ==
    /\ \A tier \in {S("A"), S("B"), S("C"), S("D"), S("E")}, env \in {PROD, LAB} :
          /\ scoring_map[<<tier, I(4), env, IP>>] >= 67
          /\ scoring_map[<<tier, ESC, env>>] <= 66
    /\ \A k \in DOMAIN scoring_map : k[2] = ESC => scoring_map[k] <= 66
    /\ Scored =>
          \A i, j \in 1..Len(tickets) :
              (UrgentIncident(tickets[i]) /\ tickets[j].is_escalated)
                  => /\ tickets[i].score > tickets[j].score
                     /\ i < j

\* C26 witness: an escalated tier A Production ticket arrived first and a
\* non-escalated tier C Lab incident of priority 4 has been placed before it.
C26_Witness ==
    /\ Scored
    /\ Len(tickets) = 2
    /\ given[1].is_escalated
    /\ TierUsed(given[1]) = S("A") /\ EnvUsed(given[1]) = PROD
    /\ UrgentIncident(given[2])
    /\ TierUsed(given[2]) = S("C") /\ EnvUsed(given[2]) = LAB
    /\ tickets[1].id = 2
    /\ tickets[1].score = 71
    /\ tickets[2].score = 66

\* C27 as claimed: whatever the command line, main comes to its check
\* `tickets is None` with the variable tickets assigned, and no run ends in
\* the error of reading an unassigned variable.
C27_TicketsAssignedAtTheCheck ==
    /\ pc = "fetched" => source # "unbound"
    /\ raised # "UnboundLocalError"

\* a call of make_api_request is running
ApiCallRunning == pc \in {"companies", "get_tickets"} /\ raised = "none"

\* what holds of the requests of one top-level call of make_api_request
RetriesOnlyAfterTimeouts ==
    /\ Len(outcomes) <= DefaultRetries + 1
    /\ \A n \in 1..(Len(outcomes) - 1) : outcomes[n] = "Timeout"
    /\ ApiCallRunning =>
          /\ retries = DefaultRetries - Len(outcomes)
          /\ \A n \in 1..Len(outcomes) : outcomes[n] = "Timeout"
    /\ raised = "Timeout" => outcomes = <<"Timeout", "Timeout", "Timeout">>
    /\ raised = "HTTPError" => outcomes[Len(outcomes)] = "500"
    /\ raised = "ConnectionError" => outcomes[Len(outcomes)] = "ConnectionError"

\* C28: a call of make_api_request issues at most 3 requests, a further
\* request only after a timeout; the timeout of the third request is
\* re-raised and any other failure is raised at once; and every call comes to
\* an end.
C28_AtMostTwoRetriesOnTimeoutOnly ==
    /\ []RetriesOnlyAfterTimeouts
    /\ \A k \in 1..MaxPages :
          (pc = "companies" /\ page = k /\ raised = "none")
              ~> ~(pc = "companies" /\ page = k /\ raised = "none")
    /\ (pc = "get_tickets" /\ raised = "none")
          ~> ~(pc = "get_tickets" /\ raised = "none")

\* C28 witness: three requests of one call have timed out and the timeout
\* has left make_api_request.
C28_Witness ==
    /\ raised = "Timeout"
    /\ outcomes = <<"Timeout", "Timeout", "Timeout">>
    /\ retries = 0
    /\ pc = "exit"

\* the exit status of the process: 1 when SystemExit with the argument 1 or
\* a message, or any other exception, has ended the run; 0 after main has
\* returned; -1 while the run goes on
ExitStatus ==
    IF raised # "none" THEN 1 ELSE IF pc = "done" THEN 0 ELSE -1

\* the latest request was answered 401, 403 or 429
Refused ==
    /\ outcomes # <<>>
    /\ outcomes[Len(outcomes)] \in {"401", "403", "429"}

\* C29: once a request has been answered 401, 403 or 429, on the first
\* attempt or on a retry after timeouts, the run is over with SystemExit and
\* exit status 1: no further request has been made, main's tickets variable
\* holds neither a list nor None, and nothing has been ranked or rendered.
C29_RefusedResponseEndsTheRun ==
    Refused =>
        /\ raised = "SystemExit"
        /\ pc = "exit"
        /\ ExitStatus = 1
        /\ \A n \in 1..(Len(outcomes) - 1) : outcomes[n] = "Timeout"
        /\ source = "unbound"
        /\ calls = 0
        /\ sorted_tickets = "unbound"
        /\ rendered.format = "none"

\* C29 witness: the retry after a timeout was answered 429 and the run has
\* ended.
C29_Witness ==
    /\ outcomes = <<"Timeout", "429">>
    /\ raised = "SystemExit"
    /\ pc = "exit"
    /\ args.get_tickets = "mine"
    /\ page = 1

\* C30 as claimed: once signal_handler has set the interrupted flag, the run
\* ranks, relabels and renders nothing more.
C30_InterruptStopsTheRun ==
    [][interrupted => /\ calls' = calls
                      /\ relabels' = relabels
                      /\ rendered' = rendered]_vars

====
